---------------------------- MODULE Spec2Model ----------------------------
(***************************************************************************)
(* InfoBot (src/InfoBot.py): a Zulip bot that subscribes to streams at     *)
(* startup and answers every message that starts with its key word with a  *)
(* formatted dump of that message.                                         *)
(*                                                                         *)
(* Text is modelled as a sequence of one-character strings, so that        *)
(* lower(), find(), replace(), str.format() and the % templates are        *)
(* computed character by character, as Python computes them.  A message    *)
(* is a function from its keys to values; a key that is not in its DOMAIN  *)
(* is a key whose lookup raises KeyError.                                  *)
(***************************************************************************)
EXTENDS Integers, Sequences, FiniteSets

VARIABLES
    pc,                 \* where the process is: new, constructed, running, aborted, crashed, formatting
    subscribed_streams, \* InfoBot.subscribed_streams (the configured list)
    server,             \* what GET /v1/streams answers: [status, streams]
    gets,               \* number of GET /v1/streams requests made
    subscriptions,      \* arguments of the client.add_subscriptions calls, in order
    handled,            \* number of messages the client passed to respond()
    sent,               \* number of client.send_message calls
    failures,           \* number of respond() calls that raised KeyError
    lastIn,             \* <<msg>>: the last message as it was delivered
    lastOut,            \* <<msg>>: the same dict after respond() returned or raised
    lastSent,           \* the client.send_message arguments of the last respond() call
    qualifying,         \* history: well-formed messages delivered that start with the key word
    malformedSeen,      \* history: some delivered message lacked a field
    fmsg0,              \* formatter runs: the message as first given to parse_message
    fmsg,               \* formatter runs: the same dict now
    fflags,             \* formatter runs: [private, verbose, box]
    fouts               \* formatter runs: the strings parse_message returned, in order

vars == <<pc, subscribed_streams, server, gets, subscriptions, handled, sent,
          failures, lastIn, lastOut, lastSent, qualifying, malformedSeen,
          fmsg0, fmsg, fflags, fouts>>

botVars == <<subscribed_streams, server, gets, subscriptions, handled, sent,
             failures, lastIn, lastOut, lastSent, qualifying, malformedSeen>>

fmtVars == <<fmsg0, fmsg, fflags, fouts>>

-----------------------------------------------------------------------------
(* Bounds of the model *)

\* messages the client delivers in one run
MaxMsgs == 2

\* parse_message calls made on one message dict in a formatter run
MaxCalls == 2

-----------------------------------------------------------------------------
(* String literals of the source, one character per element *)

\* InfoBot.py:214  key_word = "InfoBot"
KeyWordArg ==
    <<"I", "n", "f", "o", "B", "o", "t">>

\* InfoBot.py:73
OptV ==
    <<"-", "v">>

OptVerbose ==
    <<"-", "-", "v", "e", "r", "b", "o", "s", "e">>

\* InfoBot.py:74
OptNb ==
    <<"-", "n", "b">>

OptNoBox ==
    <<"-", "-", "n", "o", "-", "b", "o", "x">>

\* InfoBot.py:72, 83
TypePrivate ==
    <<"p", "r", "i", "v", "a", "t", "e">>

\* InfoBot.py:107  the two characters backslash, n
EscapedNewline ==
    <<"\\", "n">>

\* InfoBot.py:110  newline and six tabs
IndentedNewline ==
    <<"\n", "\t", "\t", "\t", "\t", "\t", "\t">>

\* InfoBot.py:125
HintVerbose ==
    <<"(", "W", "a", "n", "t", " ", "v", "e", "r", "b", "o", "s", "e", " ",
      "o", "u", "t", "p", "u", "t", "?", " ", "S", "a", "y", " ", "grave", "I",
      "n", "f", "o", "B", "o", "t", " ", "-", "v", "grave", " ", "o", "r", " ",
      "grave", "I", "n", "f", "o", "B", "o", "t", " ", "-", "-", "v", "e", "r",
      "b", "o", "s", "e", "grave", "!">>

\* InfoBot.py:168
HintTerse ==
    <<"\n", "(", "D", "o", "n", "'", "t", " ", "w", "a", "n", "t", " ", "v",
      "e", "r", "b", "o", "s", "e", " ", "o", "u", "t", "p", "u", "t", "?",
      " ", "S", "a", "y", " ", "j", "u", "s", "t", " ", "grave", "I", "n", "f",
      "o", "B", "o", "t", "grave", "!">>

\* InfoBot.py:170
HintBox ==
    <<"\n", "Y", "o", "u", " ", "c", "a", "n", " ", "a", "l", "s", "o", " ",
      "t", "u", "r", "n", " ", "o", "f", "f", " ", "b", "o", "x", " ", "p",
      "r", "i", "n", "t", "i", "n", "g", " ", "w", "i", "t", "h", " ", "grave",
      "-", "n", "b", "grave", " ", "o", "r", " ", "grave", "-", "-", "n", "o", "-",
      "b", "o", "x", "grave", "!", ")">>

\* InfoBot.py:135
SubjectEmpty ==
    <<"T", "h", "e", " ", "s", "u", "b", "j", "e", "c", "t", " ", "w", "a",
      "s", " ", "a", "n", " ", "e", "m", "p", "t", "y", " ", "s", "t", "r",
      "i", "n", "g">>

\* InfoBot.py:137-138  the template, cut at each %s
DestTemplate ==
    << <<"a", "n", "d", " ", "s", "e", "n", "t", " ", "t", "o", " ", "d", "i",
         "s", "p", "l", "a", "y", "_", "r", "e", "c", "i", "p", "i", "e", "n",
         "t", " ", "(", "o", "r", " ", "grave", "s", "t", "r", "e", "a", "m", "grave",
         ")", " ", "grave", "\"">>,
       <<"\"", "grave", ",", " ", "a", "t", " ", "s", "u", "b", "j", "e", "c", "t",
         " ", "(", "o", "r", " ", "t", "o", "p", "i", "c", ")", " ", "grave", "\"">>,
       <<"\"", "grave">> >>

\* InfoBot.py:142-143  the template, cut at each %s
P1Template ==
    << <<"A", " ", "m", "e", "s", "s", "a", "g", "e", " ", "w", "i", "t", "h",
         " ", "c", "o", "n", "t", "e", "n", "t", " ", "grave", "\"">>,
       <<"\"", "grave", " ", "w", "a", "s", " ", "s", "e", "n", "t", " ", "t", "o",
         " ", "r", "e", "c", "i", "p", "i", "e", "n", "t", "_", "i", "d", " ",
         "grave">>,
       <<"grave", ".", "\n", "\n">> >>

\* InfoBot.py:146-147  the template, cut at each %s
P2Template ==
    << <<"T", "h", "e", " ", "d", "e", "s", "t", "i", "n", "a", "t", "i", "o",
         "n", " ", "w", "a", "s", " ", "o", "f", " ", "t", "y", "p", "e", " ",
         "grave", "\"">>,
       <<"\"", "grave", " ">>,
       <<" ", ",", " ", "a", "l", "o", "n", "g", " ", "w", "i", "t", "h", " ",
         "s", "u", "b", "j", "e", "c", "t", "_", "l", "i", "n", "k", "s", " ",
         "grave">>,
       <<"grave", ".", "\n", "\n">> >>

\* InfoBot.py:150-151  the template, cut at each %s
P3Template ==
    << <<"T", "h", "e", " ", "m", "e", "s", "s", "a", "g", "e", " ", "h", "a",
         "s", " ", "a", "n", " ", "i", "d", " ", "o", "f", " ", "grave">>,
       <<"grave", ",", " ", "s", "e", "n", "t", " ", "a", "t", " ", "t", "i", "m",
         "e", "s", "t", "a", "m", "p", " ", "grave">>,
       <<"grave", ",", " ", "a", "n", "d", " ", "h", "a", "s", " ", "t", "h", "e",
         " ", "c", "o", "n", "t", "e", "n", "t", "_", "t", "y", "p", "e", " ",
         "grave", "\"">>,
       <<"\"", "grave", ".", "\n", "\n">> >>

\* InfoBot.py:154-156  the template, cut at each %s
P4Template ==
    << <<"T", "h", "e", " ", "m", "e", "s", "s", "a", "g", "e", " ", "c", "a",
         "m", "e", " ", "f", "r", "o", "m", " ", "s", "e", "n", "d", "e", "r",
         "_", "f", "u", "l", "l", "_", "n", "a", "m", "e", " ", "grave", "\"">>,
       <<"\"", "grave", ",", " ", "k", "n", "o", "w", "n", " ", "a", "l", "s", "o",
         " ", "a", "s", " ", "s", "e", "n", "d", "e", "r", "_", "s", "h", "o",
         "r", "t", "_", "n", "a", "m", "e", " ", "grave", "\"">>,
       <<"\"", "grave", " ", "w", "h", "o", " ", "h", "a", "s", " ", "a", " ", "s",
         "e", "n", "d", "e", "r", "_", "i", "d", " ", "o", "f", " ", "grave">>,
       <<"grave", ",", " ", "a", "n", "d", " ", "a", " ", "s", "e", "n", "d", "e",
         "r", "_", "e", "m", "a", "i", "l", " ", "o", "f", " ", "grave">>,
       <<"grave", ".", "\n", "\n">> >>

\* InfoBot.py:160  the template, cut at each %s
P5Template ==
    << <<"T", "h", "e", " ", "s", "e", "n", "d", "e", "r", "_", "d", "o", "m",
         "a", "i", "n", " ", "i", "s", " ", "grave">>,
       <<"grave", ",", " ", "u", "s", "i", "n", "g", " ", "c", "l", "i", "e", "n",
         "t", " ", "grave", "\"">>,
       <<"\"", "grave", ".", "\n", "\n">> >>

\* InfoBot.py:163-164  the template, cut at each %s
P6Template ==
    << <<"T", "h", "e", " ", "g", "r", "a", "v", "a", "t", "a", "r", "_", "h",
         "a", "s", "h", " ", "o", "f", " ", "t", "h", "e", " ", "s", "e", "n",
         "d", "e", "r", "'", "s", " ", "a", "v", "a", "t", "a", "r", " ", "i",
         "s", " ", "grave">>,
       <<"grave", ",", " ", "a", "n", "d", " ", "t", "h", "e", "i", "r", " ", "a",
         "v", "a", "t", "a", "r", "_", "u", "r", "l", " ", "i", "s", " ", "grave">>,
       <<"grave", ".", "\n", "\n">> >>

\* InfoBot.py:196-199  the template, cut at each %s
RcpTemplate ==
    << <<"\n", "\n", "T", "h", "e", " ", "m", "e", "s", "s", "a", "g", "e", " ",
         "w", "a", "s", " ", "s", "e", "n", "t", " ">>,
       <<" ", "a", " ", "z", "u", "l", "i", "p", " ", "u", "s", "e", "r", " ",
         "w", "i", "t", "h", " ", "t", "h", "e", " ", "f", "u", "l", "l", "_",
         "n", "a", "m", "e", " ", "grave", "\"">>,
       <<"\"", "grave", ",", " ", "a", "l", "s", "o", " ", "k", "n", "o", "w", "n",
         " ", "a", "s", " ", "s", "h", "o", "r", "t", "_", "n", "a", "m", "e",
         " ", "grave", "\"">>,
       <<"\"", "grave", ",", " ", "w", "h", "o", " ", "h", "a", "s", " ", "t", "h",
         "e", " ", "i", "d", " ", "grave">>,
       <<"grave", ",", " ", "a", "n", "d", " ", "a", "n", " ", "e", "m", "a", "i",
         "l", " ", "o", "f", " ", "grave">>,
       <<"grave", ".", "\n", "\n", "A", "l", "s", "o", ",", " ", "t", "h", "e", "i",
         "r", " ", "d", "o", "m", "a", "i", "n", " ", "i", "s", " ", "grave">>,
       <<"grave", " ", "a", "n", "d", " ", "i", "s", "_", "m", "i", "r", "r", "o",
         "r", "_", "d", "u", "m", "m", "y", " ", "i", "s", " ", "grave">>,
       <<"grave", ".", "\n", "\n">> >>

\* the characters of key k, as str.format() writes them (InfoBot.py:121, 183)
KeyText(k) ==
    CASE k = "content" -> <<"c", "o", "n", "t", "e", "n", "t">>
      [] k = "recipient_id" -> <<"r", "e", "c", "i", "p", "i", "e", "n", "t", "_", "i", "d">>
      [] k = "type" -> <<"t", "y", "p", "e">>
      [] k = "display_recipient" -> <<"d", "i", "s", "p", "l", "a", "y", "_", "r", "e", "c", "i", "p", "i",
               "e", "n", "t">>
      [] k = "subject" -> <<"s", "u", "b", "j", "e", "c", "t">>
      [] k = "subject_links" -> <<"s", "u", "b", "j", "e", "c", "t", "_", "l", "i", "n", "k", "s">>
      [] k = "id" -> <<"i", "d">>
      [] k = "timestamp" -> <<"t", "i", "m", "e", "s", "t", "a", "m", "p">>
      [] k = "content_type" -> <<"c", "o", "n", "t", "e", "n", "t", "_", "t", "y", "p", "e">>
      [] k = "sender_full_name" -> <<"s", "e", "n", "d", "e", "r", "_", "f", "u", "l", "l", "_", "n", "a",
               "m", "e">>
      [] k = "sender_short_name" -> <<"s", "e", "n", "d", "e", "r", "_", "s", "h", "o", "r", "t", "_", "n",
               "a", "m", "e">>
      [] k = "sender_id" -> <<"s", "e", "n", "d", "e", "r", "_", "i", "d">>
      [] k = "sender_email" -> <<"s", "e", "n", "d", "e", "r", "_", "e", "m", "a", "i", "l">>
      [] k = "sender_domain" -> <<"s", "e", "n", "d", "e", "r", "_", "d", "o", "m", "a", "i", "n">>
      [] k = "client" -> <<"c", "l", "i", "e", "n", "t">>
      [] k = "gravatar_hash" -> <<"g", "r", "a", "v", "a", "t", "a", "r", "_", "h", "a", "s", "h">>
      [] k = "avatar_url" -> <<"a", "v", "a", "t", "a", "r", "_", "u", "r", "l">>
      [] k = "full_name" -> <<"f", "u", "l", "l", "_", "n", "a", "m", "e">>
      [] k = "short_name" -> <<"s", "h", "o", "r", "t", "_", "n", "a", "m", "e">>
      [] k = "email" -> <<"e", "m", "a", "i", "l">>
      [] k = "domain" -> <<"d", "o", "m", "a", "i", "n">>
      [] k = "is_mirror_dummy" -> <<"i", "s", "_", "m", "i", "r", "r", "o", "r", "_", "d", "u", "m", "m",
               "y">>
      [] k = "to" -> <<"t", "o">>

ValGeneral ==
    <<"g", "e", "n", "e", "r", "a", "l">>

ValLunch ==
    <<"l", "u", "n", "c", "h">>

ValStream ==
    <<"s", "t", "r", "e", "a", "m">>

ValTo ==
    <<"t", "o">>

ValBy ==
    <<"b", "y">>

ValTrue ==
    <<"T", "r", "u", "e">>

ValFalse ==
    <<"F", "a", "l", "s", "e">>

ValHtml ==
    <<"t", "e", "x", "t", "/", "h", "t", "m", "l">>

ValAl ==
    <<"A", "l", " ", "I", "c", "e">>

ValAlShort ==
    <<"a", "l">>

ValMail ==
    <<"a", "@", "x", ".", "i", "o">>

ValDomain ==
    <<"x", ".", "i", "o">>

ValClient ==
    <<"w", "e", "b">>

ValHash ==
    <<"9", "f">>

ValUrl ==
    <<"/", "/", "x", ".", "i", "o", "/", "a", ".", "p", "n", "g">>

ValBo ==
    <<"B", "o">>

ValBoShort ==
    <<"b", "o">>

ValBoMail ==
    <<"b", "@", "x", ".", "i", "o">>

TextPlain ==
    <<"I", "n", "f", "o", "B", "o", "t">>

TextLower ==
    <<"i", "n", "f", "o", "b", "o", "t", " ", "-", "v">>

TextUpperNb ==
    <<"I", "N", "F", "O", "B", "O", "T", " ", "-", "n", "b">>

TextVerboseNb ==
    <<"I", "n", "f", "o", "B", "o", "t", " ", "-", "-", "v", "e", "r", "b",
      "o", "s", "e", " ", "-", "-", "n", "o", "-", "b", "o", "x">>

TextLater ==
    <<"h", "i", " ", "I", "n", "f", "o", "B", "o", "t">>

TextShort ==
    <<"I", "n", "f", "o">>

TextNewline ==
    <<"I", "n", "f", "o", "B", "o", "t", " ", "a", "\n", "b">>

TextTab ==
    <<"I", "n", "f", "o", "B", "o", "t", " ", "a", "\t", "b">>

TextQuotes ==
    <<"I", "n", "f", "o", "B", "o", "t", " ", "-", "v", " ", "\"", "q", "\"",
      " ", "grave", "t", "grave", "\n", ".">>

TextQuotesNb ==
    <<"I", "n", "f", "o", "B", "o", "t", " ", "-", "v", " ", "-", "n", "b",
      " ", "\"", "q", "\"", " ", "grave", "t", "grave">>

TextNbNewline ==
    <<"I", "n", "f", "o", "B", "o", "t", " ", "-", "n", "b", " ", "a", "\n",
      "\t", "b">>
-----------------------------------------------------------------------------
(* Python's string operations *)

\* "{:<20}": the field width
PadWidth == 20

UpperCase ==
    <<"A", "B", "C", "D", "E", "F", "G", "H", "I", "J", "K", "L", "M",
      "N", "O", "P", "Q", "R", "S", "T", "U", "V", "W", "X", "Y", "Z">>

LowerCase ==
    <<"a", "b", "c", "d", "e", "f", "g", "h", "i", "j", "k", "l", "m",
      "n", "o", "p", "q", "r", "s", "t", "u", "v", "w", "x", "y", "z">>

\* c.lower() of one character
LowerChar(c) ==
    IF \E n \in 1..Len(UpperCase) : UpperCase[n] = c
    THEN LowerCase[CHOOSE n \in 1..Len(UpperCase) : UpperCase[n] = c]
    ELSE c

\* str.lower()
Lower(s) == [i \in 1..Len(s) |-> LowerChar(s[i])]

\* sub occurs in s at 0-based offset i
OccursAt(s, sub, i) ==
    /\ i + Len(sub) <= Len(s)
    /\ \A j \in 1..Len(sub) : s[i + j] = sub[j]

\* str.find(sub): the lowest 0-based offset of sub in s, or -1
Find(s, sub) ==
    IF \E i \in 0..Len(s) : OccursAt(s, sub, i)
    THEN CHOOSE i \in 0..Len(s) :
            /\ OccursAt(s, sub, i)
            /\ \A k \in 0..(i - 1) : ~OccursAt(s, sub, k)
    ELSE -1

\* sub in s
Contains(s, sub) == \E i \in 0..Len(s) : OccursAt(s, sub, i)

\* s.replace(c, r) for a one-character c
RECURSIVE Replace(_, _, _)
Replace(s, c, r) ==
    IF s = << >> THEN << >>
    ELSE (IF Head(s) = c THEN r ELSE <<Head(s)>>) \o Replace(Tail(s), c, r)

\* s.replace(c, "") for a one-character c
Remove(s, c) == SelectSeq(s, LAMBDA x : x # c)

\* the concatenation of a sequence of strings
RECURSIVE Join(_)
Join(ss) == IF ss = << >> THEN << >> ELSE Head(ss) \o Join(Tail(ss))

\* LJust without the padding: "{}".format(s)
LJustNone(s) == s

\* "{:<20}".format(s): s padded with spaces on the right to PadWidth
LJust(s) ==
    IF Len(s) >= PadWidth THEN s
    ELSE s \o [i \in 1..(PadWidth - Len(s)) |-> " "]

\* template % args: the pieces of the template with one argument between each two
Interpolate(template, args) ==
    Join([i \in 1..(2 * Len(args) + 1) |->
            IF i % 2 = 1 THEN template[(i + 1) \div 2] ELSE args[i \div 2]])

Digits == <<"0", "1", "2", "3", "4", "5", "6", "7", "8", "9">>

\* str(n) of a non-negative integer
RECURSIVE IntToStr(_)
IntToStr(n) ==
    IF n < 10 THEN <<Digits[n + 1]>>
    ELSE IntToStr(n \div 10) \o <<Digits[(n % 10) + 1]>>

Apostrophe == <<"'">>

\* The grave accent (the back-tick of the templates) is written "grave": the
\* parser pairs a grave accent with a later apostrophe, even inside a string.
Grave == "grave"

\* one element of str(l): its separator and the quoted string
ListItem(l, i) ==
    (IF i > 1 THEN <<",", " ">> ELSE << >>) \o Apostrophe \o l[i] \o Apostrophe

\* str(l) of a list of plain strings
ListToStr(l) ==
    <<"[">> \o Join([i \in 1..Len(l) |-> ListItem(l, i)]) \o <<"]">>

IntKeys == {"recipient_id", "id", "timestamp", "sender_id"}

\* what %s writes for the value v of key k: text as it is, an integer in
\* decimal, a boolean as True or False, a list as its str()
Text(k, v) ==
    IF k \in IntKeys THEN IntToStr(v)
    ELSE IF k = "is_mirror_dummy" THEN (IF v THEN ValTrue ELSE ValFalse)
    ELSE IF k = "subject_links" THEN ListToStr(v)
    ELSE v

-----------------------------------------------------------------------------
(* InfoBot.__init__ *)

\* self.key_word = key_word.lower()
key_word == Lower(KeyWordArg)

\* custom order that public message content should be displayed
parse_order ==
    << "content", "recipient_id", "type", "display_recipient",
       "subject", "subject_links", "id", "timestamp", "content_type",
       "sender_full_name", "sender_short_name", "sender_id",
       "sender_email", "sender_domain", "client",
       "gravatar_hash", "avatar_url" >>

\* custom order for "display_recipient" on private messages
display_recipient_order ==
    << "full_name", "short_name", "id", "email", "domain", "is_mirror_dummy" >>

Range(f) == {f[i] : i \in DOMAIN f}

-----------------------------------------------------------------------------
(* Subscription at startup *)

\* get_all_zulip_streams without the status checks: response.json()["streams"]
\* whatever the status
get_all_zulip_streams_unchecked(response) ==
    [raised |-> FALSE, streams |-> response.streams]

\* requests.get(".../v1/streams"): the stream list, or the RuntimeError raised
get_all_zulip_streams(response) ==
    IF response.status = 200
    THEN [raised |-> FALSE, streams |-> response.streams]
    ELSE [raised |-> TRUE, streams |-> << >>]

\* the streams property: [{"name": stream}] of the configured list, or of
\* every stream of the server when none is configured
streams(configured, response) ==
    IF configured = << >>
    THEN LET all == get_all_zulip_streams(response)
         IN  [raised |-> all.raised,
              requests |-> 1,
              streams |-> [i \in 1..Len(all.streams) |-> [name |-> all.streams[i].name]]]
    ELSE [raised |-> FALSE,
          requests |-> 0,
          streams |-> [i \in 1..Len(configured) |-> [name |-> configured[i]]]]

\* subscribe_to_streams: the add_subscriptions calls it makes
subscribe_to_streams(configured, response) ==
    LET resolved == streams(configured, response)
    IN  [raised |-> resolved.raised,
         requests |-> resolved.requests,
         calls |-> IF resolved.raised THEN << >> ELSE <<resolved.streams>>]

-----------------------------------------------------------------------------
(* parse_display_recipient *)

Has(msg, k) == k \in DOMAIN msg

\* one "\n%s%s" % ("\t\t{:<20}".format(key), display_recipient[key])
RecipientRow(recipient, k) ==
    <<"\n", "\t", "\t">> \o LJust(KeyText(k)) \o Text(k, recipient[k])

\* the rows of one recipient, and the one extra newline after the first
RecipientRows(recipients, i) ==
    Join([j \in 1..Len(display_recipient_order) |->
            RecipientRow(recipients[i], display_recipient_order[j])])
    \o (IF i = 1 THEN <<"\n">> ELSE << >>)

\* the sentence about one recipient: "to" for the first, "by" for the others
RecipientSentence(recipients, i) ==
    LET info == recipients[i]
    IN  Interpolate(RcpTemplate,
            << IF i = 1 THEN ValTo ELSE ValBy,
               Text("full_name", info["full_name"]),
               Text("short_name", info["short_name"]),
               Text("id", info["id"]),
               Text("email", info["email"]),
               Text("domain", info["domain"]),
               Text("is_mirror_dummy", info["is_mirror_dummy"]) >>)

\* a lookup in parse_display_recipient raises KeyError
RecipientKeyError(msg) ==
    \/ ~Has(msg, "display_recipient")
    \/ \E i \in 1..Len(msg["display_recipient"]) :
          \E k \in Range(display_recipient_order) : ~Has(msg["display_recipient"][i], k)

parse_display_recipient(msg, verbose) ==
    LET recipients == msg["display_recipient"]
    IN  IF ~verbose
        THEN Join([i \in 1..Len(recipients) |-> RecipientRows(recipients, i)])
        ELSE Join([i \in 1..Len(recipients) |-> RecipientSentence(recipients, i)])

-----------------------------------------------------------------------------
(* parse_message *)

\* lines 105-110: msg["content"] is rewritten in place
EscapeContent(msg, verbose, box) ==
    IF verbose
    THEN [msg EXCEPT !["content"] = Replace(msg["content"], "\n", EscapedNewline)]
    ELSE IF box
    THEN [msg EXCEPT !["content"] = Replace(msg["content"], "\n", IndentedNewline)]
    ELSE msg

\* the keys of msg that parse_message looks up after the rewrite of content
KeysRead(private, verbose) ==
    IF ~verbose
    THEN Range(parse_order)
    ELSE (Range(parse_order) \ {"display_recipient", "subject"})
         \cup (IF private THEN {"display_recipient"} ELSE {"display_recipient", "subject"})

\* a lookup in parse_message raises KeyError
ParseKeyError(msg, private, verbose) ==
    \/ \E k \in KeysRead(private, verbose) : ~Has(msg, k)
    \/ private /\ RecipientKeyError(msg)

\* one "%s%s\n" % ("\t{:<20}".format(key), info)
FieldLine(msg, k, display_recipient) ==
    <<"\t">> \o LJust(KeyText(k))
    \o (IF k # "display_recipient" THEN Text(k, msg[k]) ELSE display_recipient)
    \o <<"\n">>

\* Unbox that leaves the tabs in
UnboxNever(parsing, box) == parsing

\* line 124: without a box, every tab goes
Unbox(parsing, box) == IF ~box THEN Remove(parsing, "\t") ELSE parsing

\* lines 118-125
TerseReport(msg, private, box) ==
    LET display_recipient ==
            IF private THEN parse_display_recipient(msg, FALSE)
            ELSE msg["display_recipient"]
        parsing ==
            Join([i \in 1..Len(parse_order) |->
                    FieldLine(msg, parse_order[i], display_recipient)])
    IN  Unbox(parsing, box) \o HintVerbose

\* BoxPass that strips the double quotes whatever box is
BoxPassQuotesOnly(parsing, box) == Remove(parsing, "\"")

\* line 167: the box pass over the paragraphs
BoxPass(parsing, box) ==
    IF box THEN Remove(parsing, "\"") ELSE Remove(parsing, Grave)

\* lines 133-139: what the second paragraph says about the destination
Destination(msg, private) ==
    IF private
    THEN parse_display_recipient(msg, TRUE) \o SubjectEmpty
    ELSE Interpolate(DestTemplate, <<msg["display_recipient"], msg["subject"]>>)

\* lines 141-165: the six paragraphs
Paragraphs(msg, private) ==
    Interpolate(P1Template,
        <<msg["content"], Text("recipient_id", msg["recipient_id"])>>)
    \o Interpolate(P2Template,
        <<msg["type"], Destination(msg, private),
          Text("subject_links", msg["subject_links"])>>)
    \o Interpolate(P3Template,
        <<Text("id", msg["id"]), Text("timestamp", msg["timestamp"]),
          msg["content_type"]>>)
    \o Interpolate(P4Template,
        <<msg["sender_full_name"], msg["sender_short_name"],
          Text("sender_id", msg["sender_id"]), msg["sender_email"]>>)
    \o Interpolate(P5Template, <<msg["sender_domain"], msg["client"]>>)
    \o Interpolate(P6Template, <<msg["gravatar_hash"], msg["avatar_url"]>>)

\* lines 127-168
VerboseReport(msg, private, box) ==
    BoxPass(Paragraphs(msg, private), box) \o HintTerse

\* parse_message(msg, private, verbose, box): whether it raised KeyError, the
\* string it returned and the dict msg as it left it
parse_message(msg, private, verbose, box) ==
    IF (verbose \/ box) /\ ~Has(msg, "content")
    THEN [raised |-> TRUE, out |-> << >>, msg |-> msg]
    ELSE LET m == EscapeContent(msg, verbose, box)
         IN  IF ParseKeyError(m, private, verbose)
             THEN [raised |-> TRUE, out |-> << >>, msg |-> m]
             ELSE [raised |-> FALSE,
                   out |-> (IF verbose THEN VerboseReport(m, private, box)
                            ELSE TerseReport(m, private, box)) \o HintBox,
                   msg |-> m]

-----------------------------------------------------------------------------
(* send_message and respond *)

\* line 89: the items of the outgoing message
outgoing_items == << "type", "subject", "to", "content" >>

\* msg with msg[k] = v, whether or not k was a key before
Assign(msg, k, v) ==
    [x \in (DOMAIN msg) \cup {k} |-> IF x = k THEN v ELSE msg[x]]

\* ToKey that answers every message to its sender
ToKeySender(msg) == "sender_email"

\* lines 83-86: the key of msg that msg["to"] is copied from
ToKey(msg) ==
    IF msg["type"] = TypePrivate THEN "sender_email" ELSE "display_recipient"

\* send_message with msg.get(item, "") for msg[item]: nothing raises, and a
\* message is sent whatever is missing
send_message_lenient(msg) ==
    LET Get(m, k) == IF k \in DOMAIN m THEN m[k] ELSE << >>
        m == [x \in (DOMAIN msg) \cup {"to"} |->
                IF x = "to" THEN Get(msg, ToKey(msg)) ELSE msg[x]]
    IN  [raised |-> FALSE,
         sends |-> << [k \in Range(outgoing_items) |-> Get(m, k)] >>,
         msg |-> m]

\* send_message(msg): whether it raised KeyError, the client.send_message
\* calls it made and the dict msg as it left it
send_message(msg) ==
    IF ~Has(msg, "type") \/ ~Has(msg, ToKey(msg))
    THEN [raised |-> TRUE, sends |-> << >>, msg |-> msg]
    ELSE LET m == Assign(msg, "to", msg[ToKey(msg)])
         IN  IF \E k \in Range(outgoing_items) : ~Has(m, k)
             THEN [raised |-> TRUE, sends |-> << >>, msg |-> m]
             ELSE [raised |-> FALSE,
                   sends |-> << [k \in Range(outgoing_items) |-> m[k]] >>,
                   msg |-> m]

\* Triggered with the key word anywhere in the content
TriggeredAnywhere(content) == Find(content, key_word) >= 0

\* line 70: makes sure InfoBot was the first word
Triggered(content) == Find(content, key_word) = 0

\* lines 72-74
Flags(msg, content) ==
    [private |-> msg["type"] = TypePrivate,
     verbose |-> Contains(content, OptV) \/ Contains(content, OptVerbose),
     box |-> ~Contains(content, OptNb) /\ ~Contains(content, OptNoBox)]

\* respond(msg): whether it raised KeyError, the client.send_message calls it
\* made and the dict msg as it left it
respond(msg) ==
    IF ~Has(msg, "content")
    THEN [raised |-> TRUE, sends |-> << >>, msg |-> msg]
    ELSE LET content == Lower(msg["content"])
         IN  IF ~Triggered(content)
             THEN [raised |-> FALSE, sends |-> << >>, msg |-> msg]
             ELSE IF ~Has(msg, "type")
             THEN [raised |-> TRUE, sends |-> << >>, msg |-> msg]
             ELSE LET f == Flags(msg, content)
                      parsed == parse_message(msg, f.private, f.verbose, f.box)
                  IN  IF parsed.raised
                      THEN [raised |-> TRUE, sends |-> << >>, msg |-> parsed.msg]
                      ELSE send_message(Assign(parsed.msg, "content", parsed.out))

-----------------------------------------------------------------------------
(* The messages the client delivers *)

MsgTypes == {ValStream, TypePrivate}

\* one record of the display_recipient list of a private message
Recipient(n) ==
    [full_name |-> IF n = 1 THEN ValAl ELSE ValBo,
     short_name |-> IF n = 1 THEN ValAlShort ELSE ValBoShort,
     id |-> n,
     email |-> IF n = 1 THEN ValMail ELSE ValBoMail,
     domain |-> ValDomain,
     is_mirror_dummy |-> (n # 1)]

\* a message of the given type and content with every field of the Zulip
\* message dict
Message(type, content) ==
    [content |-> content,
     recipient_id |-> 12,
     type |-> type,
     display_recipient |->
        IF type = TypePrivate THEN <<Recipient(1), Recipient(2)>> ELSE ValGeneral,
     subject |-> IF type = TypePrivate THEN << >> ELSE ValLunch,
     subject_links |-> << >>,
     id |-> 407,
     timestamp |-> 1400000000,
     content_type |-> ValHtml,
     sender_full_name |-> ValAl,
     sender_short_name |-> ValAlShort,
     sender_id |-> 1,
     sender_email |-> ValMail,
     sender_domain |-> ValDomain,
     client |-> ValClient,
     gravatar_hash |-> ValHash,
     avatar_url |-> ValUrl]

Without(f, k) == [x \in (DOMAIN f) \ {k} |-> f[x]]

\* what a delivered message may lack: nothing, one of its fields, or one
\* field of the last record of its display_recipient list
Defects(type) ==
    {[at |-> "none", key |-> ""]}
    \cup {[at |-> "msg", key |-> k] : k \in Range(parse_order)}
    \cup (IF type = TypePrivate
          THEN {[at |-> "recipient", key |-> k] : k \in Range(display_recipient_order)}
          ELSE {})

Damaged(msg, defect) ==
    IF defect.at = "msg" THEN Without(msg, defect.key)
    ELSE IF defect.at = "recipient"
    THEN [msg EXCEPT !["display_recipient"] =
            [@ EXCEPT ![Len(@)] = Without(@, defect.key)]]
    ELSE msg

\* contents the client delivers to the running bot
DeliveredContents ==
    {TextPlain, TextLower, TextUpperNb, TextLater, TextNewline}

\* contents the formatter is run on
FormattedContents ==
    DeliveredContents
    \cup {TextShort, TextVerboseNb, TextTab, TextQuotes, TextQuotesNb, TextNbNewline}

\* every field of the data model is there
WellFormed(msg) ==
    /\ \A k \in Range(parse_order) : k \in DOMAIN msg
    /\ msg["type"] = TypePrivate =>
         \A i \in 1..Len(msg["display_recipient"]) :
            \A k \in Range(display_recipient_order) :
               k \in DOMAIN msg["display_recipient"][i]

\* the lowercased content has the lowercased trigger word at offset 0
StartsWithKeyWord(msg) ==
    /\ "content" \in DOMAIN msg
    /\ Len(msg["content"]) >= Len(KeyWordArg)
    /\ Lower(SubSeq(msg["content"], 1, Len(KeyWordArg))) = Lower(KeyWordArg)

-----------------------------------------------------------------------------
(* The bot: construction, main() and the deliveries of the client *)

\* the streams of the server, as the list request returns them
ServerStreams ==
    << [name |-> "social", stream_id |-> 1], [name |-> "help", stream_id |-> 2] >>

\* the configured list and the status of the list request: no list with each
\* answer of the server, and a list with a server that refuses the request
Configurations ==
    {[configured |-> << >>, status |-> s] : s \in {200, 401, 500}}
    \cup {[configured |-> <<"help", "checkins">>, status |-> 401]}

Init ==
    /\ pc = "new"
    /\ \E c \in Configurations :
          /\ subscribed_streams = c.configured
          /\ server = [status |-> c.status, streams |-> ServerStreams]
    /\ gets = 0
    /\ subscriptions = << >>
    /\ handled = 0
    /\ sent = 0
    /\ failures = 0
    /\ lastIn = << >>
    /\ lastOut = << >>
    /\ lastSent = << >>
    /\ qualifying = 0
    /\ malformedSeen = FALSE
    /\ fmsg0 = << >>
    /\ fmsg = << >>
    /\ fflags = [private |-> FALSE, verbose |-> FALSE, box |-> FALSE]
    /\ fouts = << >>

\* bot = InfoBot(...): __init__ subscribes, or the RuntimeError of
\* get_all_zulip_streams ends the script
Construct ==
    /\ pc = "new"
    /\ LET r == subscribe_to_streams(subscribed_streams, server)
       IN  /\ gets' = gets + r.requests
           /\ subscriptions' = subscriptions \o r.calls
           /\ pc' = IF r.raised THEN "aborted" ELSE "constructed"
    /\ UNCHANGED <<subscribed_streams, server, handled, sent, failures, lastIn,
                   lastOut, lastSent, qualifying, malformedSeen>>
    /\ UNCHANGED fmtVars

\* bot.main(): the blocking client.call_on_each_message
Main ==
    /\ pc = "constructed"
    /\ pc' = "running"
    /\ UNCHANGED botVars
    /\ UNCHANGED fmtVars

\* respond(msg) on one delivered message, and what the run remembers of it
Deliver(msg) ==
    /\ LET r == respond(msg)
       IN  /\ lastOut' = <<r.msg>>
           /\ lastSent' = r.sends
           /\ sent' = sent + Len(r.sends)
           /\ failures' = failures + (IF r.raised THEN 1 ELSE 0)
           /\ pc' = IF r.raised THEN "crashed" ELSE "running"
    /\ handled' = handled + 1
    /\ lastIn' = <<msg>>
    /\ qualifying' = qualifying + (IF WellFormed(msg) /\ StartsWithKeyWord(msg) THEN 1 ELSE 0)
    /\ malformedSeen' = (malformedSeen \/ ~WellFormed(msg))
    /\ UNCHANGED <<subscribed_streams, server, gets, subscriptions>>
    /\ UNCHANGED fmtVars

\* the client calls the lambda of main() on the next message; a KeyError of
\* respond() is not caught in main() and leaves call_on_each_message
Receive ==
    /\ pc = "running"
    /\ handled < MaxMsgs
    /\ \E type \in MsgTypes : \E content \in DeliveredContents :
          \E defect \in Defects(type) :
             Deliver(Damaged(Message(type, content), defect))

Next == Construct \/ Main \/ Receive

Spec == Init /\ [][Next]_vars

-----------------------------------------------------------------------------
(* The formatter on its own: parse_message called on one message dict *)

InitFmt ==
    /\ pc = "formatting"
    /\ subscribed_streams = << >>
    /\ server = [status |-> 200, streams |-> ServerStreams]
    /\ gets = 0
    /\ subscriptions = << >>
    /\ handled = 0
    /\ sent = 0
    /\ failures = 0
    /\ lastIn = << >>
    /\ lastOut = << >>
    /\ lastSent = << >>
    /\ qualifying = 0
    /\ malformedSeen = FALSE
    /\ \E type \in MsgTypes : \E content \in FormattedContents :
          /\ fmsg0 = Message(type, content)
          /\ fflags \in {[private |-> (type = TypePrivate), verbose |-> v, box |-> b] :
                            v \in BOOLEAN, b \in BOOLEAN}
    /\ fmsg = fmsg0
    /\ fouts = << >>

\* one more parse_message(msg, private, verbose, box) on the same dict
Format ==
    /\ pc = "formatting"
    /\ Len(fouts) < MaxCalls
    /\ LET r == parse_message(fmsg, fflags.private, fflags.verbose, fflags.box)
       IN  /\ fouts' = Append(fouts, r.out)
           /\ fmsg' = r.msg
    /\ UNCHANGED <<pc, fmsg0, fflags>>
    /\ UNCHANGED botVars

NextFmt == Format

SpecFmt == InitFmt /\ [][NextFmt]_vars

-----------------------------------------------------------------------------
(* What the properties below read of a string *)

NoChar(s, c) == \A i \in 1..Len(s) : s[i] # c

Count(s, c) == Cardinality({i \in 1..Len(s) : s[i] = c})

StartsWith(s, p) == Len(s) >= Len(p) /\ SubSeq(s, 1, Len(p)) = p

EndsWith(s, p) == Len(s) >= Len(p) /\ SubSeq(s, Len(s) - Len(p) + 1, Len(s)) = p

\* the n-th smallest element of a set of numbers
Nth(S, n) == CHOOSE x \in S : Cardinality({y \in S : y < x}) = n - 1

\* the pieces of s between the occurrences of c
Pieces(s, c) ==
    LET at == {i \in 1..Len(s) : s[i] = c}
    IN  [j \in 1..(Cardinality(at) + 1) |->
            SubSeq(s, Nth(at \cup {0}, j) + 1, Nth(at \cup {Len(s) + 1}, j) - 1)]

Lines(s) == Pieces(s, "\n")

\* line is a tab, the label of key k, spaces up to column PadWidth of the
\* label, and then value
FieldLineOf(line, k, value) ==
    LET label == KeyText(k)
    IN  /\ Len(line) = 1 + PadWidth + Len(value)
        /\ line[1] = "\t"
        /\ SubSeq(line, 2, 1 + Len(label)) = label
        /\ \A p \in (2 + Len(label))..(1 + PadWidth) : line[p] = " "
        /\ SubSeq(line, 2 + PadWidth, Len(line)) = value

\* line starts with a tab and the label of key k padded to PadWidth
LabelledLine(line, k) ==
    /\ Len(line) >= 1 + PadWidth
    /\ FieldLineOf(SubSeq(line, 1, 1 + PadWidth), k, << >>)

\* s with the first tab of every line that starts with one removed
RECURSIVE WithoutLeadingTabsFrom(_, _)
WithoutLeadingTabsFrom(lines, i) ==
    IF i > Len(lines) THEN << >>
    ELSE (IF i > 1 THEN <<"\n">> ELSE << >>)
         \o (IF StartsWith(lines[i], <<"\t">>) THEN Tail(lines[i]) ELSE lines[i])
         \o WithoutLeadingTabsFrom(lines, i + 1)

WithoutLeadingTabs(s) == WithoutLeadingTabsFrom(Lines(s), 1)

TwoHints == HintTerse \o HintBox

-----------------------------------------------------------------------------
(* Properties of the running bot, checked under Spec *)

\* C1: over any run of well-formed messages, respond() makes exactly one
\* client.send_message call for a message whose lowercased content starts with
\* the lowercased key word, and none for any other message, also when the
\* key word occurs later in the content.
C1_OneSendPerQualifyingMessage ==
    /\ (handled > 0 /\ WellFormed(lastIn[1])) =>
          Len(lastSent) = (IF StartsWithKeyWord(lastIn[1]) THEN 1 ELSE 0)
    /\ ~malformedSeen => sent = qualifying

\* a qualifying message was answered and then a message with the key word
\* after its first word was not
C1_Witness ==
    /\ handled = 2
    /\ ~malformedSeen
    /\ sent = 1
    /\ lastIn[1]["content"] = TextLater
    /\ Contains(Lower(lastIn[1]["content"]), Lower(KeyWordArg))
    /\ lastSent = << >>

\* C2: the reply to a qualifying message goes to display_recipient of a
\* stream message and to sender_email of a private message, with the type
\* and the subject of the inbound message.
C2_ReplyGoesBackWhereItCameFrom ==
    (handled > 0 /\ WellFormed(lastIn[1]) /\ StartsWithKeyWord(lastIn[1])) =>
        /\ Len(lastSent) = 1
        /\ lastSent[1]["type"] = lastIn[1]["type"]
        /\ lastSent[1]["subject"] = lastIn[1]["subject"]
        /\ lastIn[1]["type"] = ValStream =>
              lastSent[1]["to"] = lastIn[1]["display_recipient"]
        /\ lastIn[1]["type"] = TypePrivate =>
              lastSent[1]["to"] = lastIn[1]["sender_email"]

\* a private message was answered to the address of its sender
C2_Witness ==
    /\ handled > 0
    /\ WellFormed(lastIn[1])
    /\ lastIn[1]["type"] = TypePrivate
    /\ Len(lastSent) = 1
    /\ lastSent[1]["to"] = ValMail

\* C7: a qualifying message that lacks a field makes respond() raise KeyError,
\* and nothing is sent for it.
C7_MissingFieldNoReply ==
    (handled > 0 /\ StartsWithKeyWord(lastIn[1]) /\ ~WellFormed(lastIn[1])) =>
        /\ pc = "crashed"
        /\ failures = 1
        /\ lastSent = << >>
        /\ sent = qualifying

\* a verbose private message without subject: parse_message returned, and
\* send_message raised after it had set msg["to"]
C7_Witness ==
    /\ handled > 0
    /\ StartsWithKeyWord(lastIn[1])
    /\ "subject" \notin DOMAIN lastIn[1]
    /\ "to" \in DOMAIN lastOut[1]
    /\ pc = "crashed"
    /\ lastSent = << >>

\* C8: a KeyError of respond() does not end the receive loop; messages that
\* come after the failing one are still handled.
C8_LoopSurvivesFailure ==
    failures > 0 => pc = "running"

\* C9: add_subscriptions is called exactly once, before any message is
\* handled, with the configured list when there is one (and then without a
\* request for the streams of the server) and with the names of all streams
\* of the server otherwise; when the request fails the start is abandoned,
\* with no subscription, no second request and no message handled.
C9_SubscribeOnceOrAbort ==
    LET failed == subscribed_streams = << >> /\ server.status # 200
        expected ==
            IF subscribed_streams # << >>
            THEN [i \in 1..Len(subscribed_streams) |-> [name |-> subscribed_streams[i]]]
            ELSE [i \in 1..Len(server.streams) |-> [name |-> server.streams[i].name]]
    IN  /\ pc = "new" => (subscriptions = << >> /\ gets = 0)
        /\ (pc # "new" /\ failed) =>
              /\ pc = "aborted"
              /\ subscriptions = << >>
              /\ gets = 1
        /\ (pc # "new" /\ ~failed) =>
              /\ pc \in {"constructed", "running", "crashed"}
              /\ subscriptions = <<expected>>
              /\ gets = (IF subscribed_streams # << >> THEN 0 ELSE 1)
        /\ handled > 0 => Len(subscriptions) = 1
        /\ pc = "aborted" => handled = 0

\* the server refused the list request and the start was abandoned
C9_Witness ==
    /\ pc = "aborted"
    /\ server.status = 401
    /\ gets = 1
    /\ subscriptions = << >>

\* C10: respond() leaves the message dict as it was given: no field changed,
\* none added.
C10_MessageUnchanged ==
    handled > 0 => lastOut[1] = lastIn[1]

-----------------------------------------------------------------------------
(* Properties of parse_message, checked under SpecFmt *)

\* C3 as stated: the whole string of a verbose boxed call has no double
\* quote, and the whole string of a verbose unboxed call has no grave accent.
C3_NoDelimiterAnywhere ==
    \A i \in 1..Len(fouts) :
        fflags.verbose =>
            /\ fflags.box => NoChar(fouts[i], "\"")
            /\ ~fflags.box => NoChar(fouts[i], Grave)

\* C3: the whole string of a verbose boxed call has no double quote; the
\* string of a verbose unboxed call ends with the two hint lines, and has no
\* grave accent before them.
C3_NoDelimiterBeforeHints ==
    \A i \in 1..Len(fouts) :
        fflags.verbose =>
            /\ fflags.box => NoChar(fouts[i], "\"")
            /\ ~fflags.box =>
                  /\ EndsWith(fouts[i], TwoHints)
                  /\ NoChar(SubSeq(fouts[i], 1, Len(fouts[i]) - Len(TwoHints)), Grave)

\* a verbose unboxed call on a content with double quotes and grave accents
C3_Witness ==
    /\ Len(fouts) >= 1
    /\ fflags.verbose
    /\ ~fflags.box
    /\ ~NoChar(fmsg0["content"], Grave)
    /\ ~NoChar(fmsg0["content"], "\"")

\* C4: two parse_message calls in a row on the same message with the same
\* flags return the same string.
C4_SameOutputTwice ==
    Len(fouts) >= 2 => fouts[2] = fouts[1]

\* the case of C5: a terse boxed call on a stream message that starts with
\* the key word
TerseBoxedStream ==
    /\ fmsg0["type"] = ValStream
    /\ StartsWithKeyWord(fmsg0)
    /\ ~fflags.verbose
    /\ fflags.box

\* C5 as stated: the string has exactly 17 lines, one per field in the fixed
\* order, each tab-prefixed with its label padded to width 20.
C5_SeventeenLines ==
    \A i \in 1..Len(fouts) :
        TerseBoxedStream =>
            /\ Len(Lines(fouts[i])) = Len(parse_order)
            /\ \A f \in 1..Len(parse_order) :
                  LabelledLine(Lines(fouts[i])[f], parse_order[f])

\* C5: with n newlines in the content (and none in the other values), the
\* string has 17 + n + 2 lines: the content line, n continuation lines that
\* start with six tabs, one line for each of the other 16 fields in the
\* fixed order, and the two hint lines; a field line is a tab, the label
\* padded to width 20 and the value.
C5_FieldLinesThenHints ==
    \A i \in 1..Len(fouts) :
        TerseBoxedStream =>
            LET lines == Lines(fouts[i])
                n == Count(fmsg0["content"], "\n")
            IN  /\ Len(lines) = Len(parse_order) + n + 2
                /\ LabelledLine(lines[1], "content")
                /\ \A j \in 2..(n + 1) : StartsWith(lines[j], Tail(IndentedNewline))
                /\ \A f \in 2..Len(parse_order) :
                      FieldLineOf(lines[n + f], parse_order[f],
                                  Text(parse_order[f], fmsg0[parse_order[f]]))
                /\ lines[Len(parse_order) + n + 1] = HintVerbose
                /\ <<"\n">> \o lines[Len(parse_order) + n + 2] = HintBox

\* a terse boxed call on a stream message with a newline in its content
C5_Witness ==
    /\ Len(fouts) >= 1
    /\ TerseBoxedStream
    /\ Count(fmsg0["content"], "\n") = 1
    /\ Len(Lines(fouts[1])) = Len(parse_order) + 3

\* the terse string of the first call and the terse string of the same
\* message with the other value of box
BoxedOut ==
    IF fflags.box THEN fouts[1]
    ELSE parse_message(fmsg0, fflags.private, FALSE, TRUE).out

UnboxedOut ==
    IF fflags.box THEN parse_message(fmsg0, fflags.private, FALSE, FALSE).out
    ELSE fouts[1]

=============================================================================
